---- MODULE Spec2Model ----
(***************************************************************************)
(* Capture -> scoring -> policy-enforcement pipeline of VHNSPO-live.       *)
(*                                                                         *)
(*   RouterManager   (routerManager.ts)   device session, retry, policies  *)
(*   NetworkTap      (networkTap.ts)      capture process and line parser  *)
(*   AnomalyDetector (anomalyDetector.ts) scoring service client, train()  *)
(*   NetworkOrchestrator (networkOrchestrator.ts) start, stop, the packet  *)
(*                   and error listeners on the tap, periodic training     *)
(*   NetworkDataProvider (NetworkDataContext.tsx) heuristic anomaly check  *)
(*                                                                         *)
(* Every async method is modelled by a pure operator that threads the      *)
(* object's fields through the statements of the method, in source order,  *)
(* and by an action that applies it.  A method that suspends on a real     *)
(* external completion (the training request, the capture process) is      *)
(* split at that await.  An emitted event is recorded by its name; the     *)
(* listeners the orchestrator registers on the tap are modelled, any other *)
(* listener is outside the model.                                          *)
(***************************************************************************)
EXTENDS Integers, Sequences, FiniteSets, TLC

(***************************************************************************)
(* Bounds of the model.                                                    *)
(***************************************************************************)
MaxCalls == 3          \* caller-made RouterManager calls in one run
MaxRules == 2          \* rules in one policy given to applyPolicy
MaxProcs == 3          \* capture processes spawned in one run
MaxTrainRuns == 3      \* train() requests sent in one run
MaxClock == 3          \* readings of Date.now() told apart
MaxStarts == 2         \* start() calls made in one run
MaxSocketPackets == 2  \* 'packet' messages the provider receives in one run

(***************************************************************************)
(* Program constants.                                                      *)
(***************************************************************************)
maxReconnectAttempts == 5

VARIABLES
    rm,             \* the RouterManager object and the effects of its calls
    deviceAnswers,  \* environment: the device answers SNMP requests
    call,           \* the caller-visible outcome of the last call made
    hist,           \* history: calls made, connect() attempts, expected session
    tap,            \* the NetworkTap object, its processes and its events
    tapCall,        \* the caller-visible outcome of the last NetworkTap call
    det,            \* the AnomalyDetector object, its requests and its events
    detCall,        \* the caller-visible outcome of the last train() call ended
    now,            \* Date.now()
    orch,           \* the NetworkOrchestrator object
    orchCall,       \* the caller-visible outcome of the last orchestrator call
                    \* ended, and what the scoring service answered to
                    \* its health request
    provider        \* the state of the NetworkDataProvider component

routerVars == <<rm, deviceAnswers, call, hist>>

tapVars == <<tap, tapCall>>

detVars == <<det, detCall, now>>

orchVars == <<orch, orchCall>>

vars ==
    <<rm, deviceAnswers, call, hist, tap, tapCall, det, detCall, now, orch, orchCall,
      provider>>

(***************************************************************************)
(* Policies and rules (NetworkPolicy).  An absent optional string field is *)
(* "", an absent port is 0: `if (rule.x)` treats both as absent.           *)
(***************************************************************************)
PolicyIds == {"p1", "p2"}

\* The i-th rule of the sample policies; the rules of one policy differ.
SampleRule(i) ==
    [sourceIP |-> "10.0.0.5", destIP |-> "",
     protocol |-> IF i % 2 = 1 THEN "" ELSE "tcp",
     port |-> IF i = 1 THEN 0 ELSE 20 + i,
     action |-> IF i % 2 = 1 THEN "deny" ELSE "limit"]

\* Rule lists of every length up to MaxRules, in either order.
RuleLists ==
    UNION { { [k \in 1..n |-> SampleRule(k)], [k \in 1..n |-> SampleRule(n + 1 - k)] } :
            n \in 0..MaxRules }

Policies == { [id |-> i, rules |-> rs] : i \in PolicyIds, rs \in RuleLists }

NoPolicy == [id |-> "", rules |-> <<>>]

EmptyStore == [i \in PolicyIds |-> NoPolicy]

(***************************************************************************)
(* Rule translation.                                                       *)
(***************************************************************************)
ToUpper(s) ==
    CASE s = "tcp" -> "TCP" [] s = "udp" -> "UDP" [] s = "icmp" -> "ICMP"
      [] OTHER -> s

ToLower(s) ==
    CASE s = "ALLOW" -> "allow" [] s = "DENY" -> "deny" [] s = "LIMIT" -> "limit"
      [] OTHER -> s

getProtocolNumber(protocol) ==
    LET p == ToUpper(protocol)
    IN  CASE p = "TCP" -> 6 [] p = "UDP" -> 17 [] p = "ICMP" -> 1 [] OTHER -> 0

\* actions.constructor: the function Object, which the object literal `actions`
\* inherits as every object does; it is not a number, -1 stands for it.
ObjectFunction == -1

\* actions[action.toLowerCase()] || 0: the lookup finds the own properties of
\* the literal and the inherited ones.
getActionNumber(action) ==
    LET a == ToLower(action)
    IN  CASE a = "allow" -> 1 [] a = "deny" -> 2 [] a = "limit" -> 3
          [] a = "constructor" -> ObjectFunction [] OTHER -> 0

Oid(o, t, v) == [oid |-> o, type |-> t, value |-> v]

generatePolicyOids(rule) ==
    (IF rule.sourceIP # "" THEN <<Oid("1.3.6.1.2.1.4.20.1.1", "OctetString", rule.sourceIP)>> ELSE <<>>)
    \o (IF rule.destIP # "" THEN <<Oid("1.3.6.1.2.1.4.20.1.2", "OctetString", rule.destIP)>> ELSE <<>>)
    \o (IF rule.protocol # "" THEN <<Oid("1.3.6.1.2.1.4.21.1.9", "Integer", getProtocolNumber(rule.protocol))>> ELSE <<>>)
    \o (IF rule.port # 0 THEN <<Oid("1.3.6.1.2.1.6.13.1.3", "Integer", rule.port)>> ELSE <<>>)
    \o <<Oid("1.3.6.1.2.1.4.21.1.13", "Integer", getActionNumber(rule.action))>>

\* The rules generatePolicyOids is applied to alone: each optional field
\* absent or present, known names in either case, unknown names.
Rules ==
    [sourceIP : {"", "10.0.0.5"}, destIP : {"", "10.0.0.9"},
     protocol : {"", "tcp", "UDP", "ICMP", "gre"}, port : {0, 443},
     action : {"allow", "DENY", "limit", "drop", "constructor"}]

(***************************************************************************)
(* RouterManager.  `rm` holds the fields of the object                     *)
(*   session ("undefined", "open", "closed": the handle in this.session),  *)
(*   isConnected, reconnectAttempts, policies                              *)
(* and what its calls have done outside the object                         *)
(*   timers    pending setTimeout(() => this.connect()) callbacks          *)
(*   scheduled setTimeout calls made so far                                *)
(*   orphans   sessions created, never closed, no longer in this.session   *)
(*   closes    session.close() calls made so far                           *)
(*   emitted   events emitted so far, per name                             *)
(*   disk      content of config/policies.json                             *)
(*   trace     the effects of the last call, in order                      *)
(*   writes    the SNMP set requests of the last call, in order            *)
(***************************************************************************)
NoEvents == [connected |-> 0, disconnected |-> 0, error |-> 0, policyApplied |-> 0]

Emit(r, e) == [r EXCEPT !.emitted[e] = @ + 1, !.trace = Append(@, e)]

Raised(r) == [r |-> r, ok |-> FALSE]

Returned(r) == [r |-> r, ok |-> TRUE]

\* Faulty variants of RetryAllowed: the comparison off by one, either way.
RetryAllowedStrict(n) == n < maxReconnectAttempts

RetryAllowedOneMore(n) == n <= maxReconnectAttempts + 1

RetryAllowed(n) == n <= maxReconnectAttempts

handleConnectionError(r) ==
    LET r1 == [r EXCEPT !.isConnected = FALSE, !.reconnectAttempts = @ + 1]
    IN  IF RetryAllowed(r1.reconnectAttempts)
        THEN [r1 EXCEPT !.timers = @ + 1, !.scheduled = @ + 1,
                        !.trace = Append(@, "setTimeout")]
        ELSE Emit(r1, "error")

\* Faulty variant of SnmpGuard: the isConnected check left out.
SnmpGuardMissing(r) == TRUE

SnmpGuard(r) == r.isConnected

snmpGet(r, answers) ==
    IF ~SnmpGuard(r) THEN Raised(r)
    ELSE LET r1 == [r EXCEPT !.trace = Append(@, "get")]
         IN  IF answers THEN Returned(r1)
             ELSE Raised(handleConnectionError(r1))

snmpSet(r, oids, accepted) ==
    IF ~SnmpGuard(r) THEN Raised(r)
    ELSE LET r1 == [r EXCEPT !.trace = Append(@, "set"), !.writes = Append(@, oids)]
         IN  IF accepted THEN Returned(r1)
             ELSE Raised(handleConnectionError(r1))

getStats(r, answers) == snmpGet(r, answers)

createSession(r) ==
    [r EXCEPT !.session = "open",
              !.orphans = IF r.session = "open" THEN @ + 1 ELSE @,
              !.trace = Append(@, "createSession")]

connect(r, answers) ==
    IF r.isConnected THEN Returned(r)
    ELSE LET s == getStats(createSession(r), answers)
         IN  IF s.ok
             THEN Returned(Emit([s.r EXCEPT !.isConnected = TRUE,
                                            !.reconnectAttempts = 0], "connected"))
             ELSE Returned(handleConnectionError(s.r))

savePolicies(r, writable) ==
    IF writable
    THEN Returned([r EXCEPT !.disk = r.policies, !.trace = Append(@, "writeFile")])
    ELSE Raised(r)

\* The rule loop of applyPolicy from rule i on; failAt is the rule whose write
\* the device rejects (0: none).
RECURSIVE applyRules(_, _, _, _)
applyRules(r, rules, i, failAt) ==
    IF i > Len(rules) THEN Returned(r)
    ELSE LET w == snmpSet(r, generatePolicyOids(rules[i]), i # failAt)
         IN  IF w.ok THEN applyRules(w.r, rules, i + 1, failAt) ELSE w

applyPolicy(r, policy, failAt, writable) ==
    IF ~r.isConnected THEN Raised(r)
    ELSE LET w == applyRules(r, policy.rules, 1, failAt)
         IN  IF ~w.ok THEN w
             ELSE LET r1 == [w.r EXCEPT !.policies[policy.id] = policy,
                                        !.trace = Append(@, "store")]
                      s  == savePolicies(r1, writable)
                  IN  IF s.ok THEN Returned(Emit(s.r, "policyApplied")) ELSE s

disconnect(r) ==
    IF r.session # "undefined"
    THEN Returned(Emit([r EXCEPT !.session = "closed", !.closes = @ + 1,
                                 !.isConnected = FALSE,
                                 !.trace = Append(@, "close")], "disconnected"))
    ELSE Returned(r)

(***************************************************************************)
(* Actions of the RouterManager.                                           *)
(***************************************************************************)
Begin(r) == [r EXCEPT !.trace = <<>>, !.writes = <<>>]

Outcome(op, res, policy, failAt, writable) ==
    [op |-> op, result |-> IF res.ok THEN "returned" ELSE "raised",
     policy |-> policy, failAt |-> failAt, writable |-> writable,
     expected |-> hist.expected]

\* hist.expected: the session state section 4.4 prescribes: connected once a
\* connect() ran while the device answered, until disconnect() or a device failure.
FreshRouter(stored) ==
    [session |-> "undefined", isConnected |-> FALSE, reconnectAttempts |-> 0,
     policies |-> stored, timers |-> 0, scheduled |-> 0, orphans |-> 0,
     closes |-> 0, emitted |-> NoEvents, disk |-> stored,
     trace |-> <<>>, writes |-> <<>>]

\* What loadPolicies can find in config/policies.json at construction.
StoredAtStartup ==
    {EmptyStore} \cup
    { [EmptyStore EXCEPT !["p1"] = p] : p \in {q \in Policies : q.id = "p1" /\ Len(q.rules) = 1} }

RouterStart(stores) ==
    /\ rm \in { FreshRouter(d) : d \in stores }
    /\ deviceAnswers = TRUE
    /\ call = [op |-> "none", result |-> "returned", policy |-> NoPolicy, failAt |-> 0,
               writable |-> TRUE, expected |-> FALSE]
    /\ hist = [calls |-> 0, userConnects |-> 0, attempts |-> 0, expected |-> FALSE]

RouterInit == RouterStart(StoredAtStartup)

RouterIdle == RouterStart({EmptyStore})

Attempted(h, r) == IF r.isConnected THEN h.attempts ELSE h.attempts + 1

CallConnect ==
    /\ hist.calls < MaxCalls
    /\ LET res == connect(Begin(rm), deviceAnswers)
       IN  /\ rm' = res.r
           /\ call' = Outcome("connect", res, NoPolicy, 0, TRUE)
    /\ hist' = [hist EXCEPT !.calls = @ + 1, !.userConnects = @ + 1,
                            !.attempts = Attempted(hist, rm),
                            !.expected = @ \/ deviceAnswers]
    /\ UNCHANGED <<provider, deviceAnswers, tapVars, detVars, orchVars>>

RetryTimerFires ==
    /\ rm.timers > 0
    /\ LET res == connect(Begin([rm EXCEPT !.timers = @ - 1]), deviceAnswers)
       IN  /\ rm' = res.r
           /\ call' = Outcome("retry", res, NoPolicy, 0, TRUE)
    /\ hist' = [hist EXCEPT !.attempts = Attempted(hist, rm),
                            !.expected = @ \/ deviceAnswers]
    /\ UNCHANGED <<provider, deviceAnswers, tapVars, detVars, orchVars>>

\* failAt = 1: the read of this call fails although the device is up.
CallGetStats ==
    /\ hist.calls < MaxCalls
    /\ \E failAt \in 0..1 :
          LET answers == deviceAnswers /\ failAt = 0
              res == getStats(Begin(rm), answers)
          IN  /\ rm' = res.r
              /\ call' = Outcome("getStats", res, NoPolicy, failAt, TRUE)
              /\ hist' = [hist EXCEPT !.calls = @ + 1, !.expected = @ /\ answers]
    /\ UNCHANGED <<provider, deviceAnswers, tapVars, detVars, orchVars>>

CallApplyPolicy ==
    /\ hist.calls < MaxCalls
    /\ \E p \in Policies, writable \in BOOLEAN :
         \E failAt \in 0..Len(p.rules) :
            LET res == applyPolicy(Begin(rm), p, failAt, writable)
            IN  /\ rm' = res.r
                /\ call' = Outcome("applyPolicy", res, p, failAt, writable)
                /\ hist' = [hist EXCEPT !.calls = @ + 1,
                                        !.expected = @ /\ failAt = 0]
    /\ UNCHANGED <<provider, deviceAnswers, tapVars, detVars, orchVars>>

CallDisconnect ==
    /\ hist.calls < MaxCalls
    /\ LET res == disconnect(Begin(rm))
       IN  /\ rm' = res.r
           /\ call' = Outcome("disconnect", res, NoPolicy, 0, TRUE)
    /\ hist' = [hist EXCEPT !.calls = @ + 1, !.expected = FALSE]
    /\ UNCHANGED <<provider, deviceAnswers, tapVars, detVars, orchVars>>

\* generatePolicyOids on one rule: rm.writes holds the request it returns.
TranslateRule ==
    /\ \E rule \in Rules :
          /\ rm' = [rm EXCEPT !.writes = <<generatePolicyOids(rule)>>]
          /\ call' = [call EXCEPT !.op = "generatePolicyOids",
                                  !.policy = [id |-> "p1", rules |-> <<rule>>]]
    /\ UNCHANGED <<provider, deviceAnswers, hist, tapVars, detVars, orchVars>>

DeviceChanges ==
    /\ deviceAnswers' = ~deviceAnswers
    /\ hist' = [hist EXCEPT !.expected = @ /\ deviceAnswers']
    /\ UNCHANGED <<provider, rm, call, tapVars, detVars, orchVars>>

(***************************************************************************)
(* NetworkTap.  `tap` holds the fields isCapturing and tcpdumpProcess (0:  *)
(* null, else the index of the process in procs) and, outside the object,  *)
(*   procs   every process spawned so far: "alive", "killed" (kill() sent, *)
(*           'close' not yet delivered) or "closed"                        *)
(*   errors  'error' events emitted so far                                 *)
(*   rawPacket, packets  the latest chunk of stdout given to processPacket *)
(*           and the 'packet' events emitted for it                        *)
(***************************************************************************)
TapResult(t, result) == [t |-> t, result |-> result]

\* Faulty variant of AlreadyRunning: the isCapturing check left out.
AlreadyRunningUnchecked(t) == FALSE

AlreadyRunning(t) == t.isCapturing

startCapture(t, spawns) ==
    IF AlreadyRunning(t) THEN TapResult(t, "AlreadyCapturing")
    ELSE IF ~spawns THEN TapResult(t, "StartFailed")
    ELSE TapResult([t EXCEPT !.procs = Append(@, "alive"),
                             !.tcpdumpProcess = Len(t.procs) + 1,
                             !.isCapturing = TRUE], "returned")

kill(procs, p) == IF procs[p] = "alive" THEN [procs EXCEPT ![p] = "killed"] ELSE procs

stopCapture(t) ==
    IF ~t.isCapturing THEN TapResult(t, "returned")
    ELSE LET t1 == IF t.tcpdumpProcess # 0
                   THEN [t EXCEPT !.procs = kill(@, t.tcpdumpProcess),
                                  !.tcpdumpProcess = 0]
                   ELSE t
         IN  TapResult([t1 EXCEPT !.isCapturing = FALSE], "returned")

\* The 'close' listener startCapture registers on each process it spawns.
onClose(t, p, code) ==
    [t EXCEPT !.isCapturing = FALSE,
              !.procs[p] = "closed",
              !.errors = IF code # "0" THEN @ + 1 ELSE @]

\* Exit codes 'close' can carry: null for a process ended by the signal of kill().
CloseCodes(state) == IF state = "killed" THEN {"null", "0", "1"} ELSE {"0", "1"}

TapInit ==
    /\ tap = [isCapturing |-> FALSE, tcpdumpProcess |-> 0, procs |-> <<>>, errors |-> 0,
              rawPacket |-> <<>>, packets |-> <<>>]
    /\ tapCall = [op |-> "none", result |-> "returned"]

CallStartCapture ==
    /\ tap.isCapturing \/ Len(tap.procs) < MaxProcs
    /\ \E spawns \in BOOLEAN :
          LET res == startCapture(tap, spawns)
          IN  /\ tap' = res.t
              /\ tapCall' = [op |-> "startCapture", result |-> res.result]
    /\ UNCHANGED <<provider, routerVars, detVars, orchVars>>

CallStopCapture ==
    /\ LET res == stopCapture(tap)
       IN  /\ tap' = res.t
           /\ tapCall' = [op |-> "stopCapture", result |-> res.result]
    /\ UNCHANGED <<provider, routerVars, detVars, orchVars>>

ProcessCloses ==
    /\ \E p \in 1..Len(tap.procs) :
          /\ tap.procs[p] \in {"alive", "killed"}
          /\ \E code \in CloseCodes(tap.procs[p]) : tap' = onClose(tap, p, code)
    /\ tapCall' = [op |-> "close", result |-> "returned"]
    /\ UNCHANGED <<provider, routerVars, detVars, orchVars>>

(***************************************************************************)
(* NetworkTap.processPacket.  Text is a sequence of one-character strings. *)
(* A regular expression is a sequence of alternatives, an alternative a    *)
(* sequence of items; an item matches characters of a class (neg: of its   *)
(* complement) once ("1"), once or more ("+") or any number of times       *)
(* ("*"), greedily, and belongs to capture group g (0: to none).  match    *)
(* is String.prototype.match without the g flag: the leftmost match, at    *)
(* one position the first alternative and the longest repetitions that     *)
(* let the rest of the alternative match.                                  *)
(***************************************************************************)
Digit == {"0", "1", "2", "3", "4", "5", "6", "7", "8", "9"}

WhiteSpace == {" ", "\t", "\r", "\n"}

One(cls, g) == [cls |-> cls, neg |-> FALSE, q |-> "1", g |-> g]

Plus(cls, g) == [cls |-> cls, neg |-> FALSE, q |-> "+", g |-> g]

Star(cls, g) == [cls |-> cls, neg |-> FALSE, q |-> "*", g |-> g]

PlusNot(cls, g) == [cls |-> cls, neg |-> TRUE, q |-> "+", g |-> g]

Word(text, g) == [i \in 1..Len(text) |-> One({text[i]}, g)]

InClass(c, item) == (c \in item.cls) # item.neg

RECURSIVE Run(_, _, _)
Run(item, text, pos) ==
    IF pos <= Len(text) /\ InClass(text[pos], item)
    THEN 1 + Run(item, text, pos + 1)
    ELSE 0

NoMatch == [ok |-> FALSE, start |-> 0, alt |-> 0, lens |-> <<>>]

RECURSIVE MatchItems(_, _, _, _)
RECURSIVE TryLen(_, _, _, _, _)
MatchItems(items, k, text, pos) ==
    IF k > Len(items) THEN [ok |-> TRUE, lens |-> <<>>]
    ELSE LET run == Run(items[k], text, pos)
         IN  TryLen(items, k, text, pos, IF items[k].q = "1" /\ run > 1 THEN 1 ELSE run)

TryLen(items, k, text, pos, n) ==
    IF n < (IF items[k].q = "*" THEN 0 ELSE 1) THEN [ok |-> FALSE, lens |-> <<>>]
    ELSE LET rest == MatchItems(items, k + 1, text, pos + n)
         IN  IF rest.ok THEN [ok |-> TRUE, lens |-> <<n>> \o rest.lens]
             ELSE TryLen(items, k, text, pos, n - 1)

RECURSIVE MatchAt(_, _, _, _)
MatchAt(regex, a, text, pos) ==
    IF a > Len(regex) THEN NoMatch
    ELSE LET m == MatchItems(regex[a], 1, text, pos)
         IN  IF m.ok THEN [ok |-> TRUE, start |-> pos, alt |-> a, lens |-> m.lens]
             ELSE MatchAt(regex, a + 1, text, pos)

RECURSIVE Search(_, _, _)
Search(regex, text, pos) ==
    IF pos > Len(text) + 1 THEN NoMatch
    ELSE LET m == MatchAt(regex, 1, text, pos)
         IN  IF m.ok THEN m ELSE Search(regex, text, pos + 1)

match(text, regex) == Search(regex, text, 1)

RECURSIVE Sum(_, _)
Sum(lens, k) == IF k = 0 THEN 0 ELSE lens[k] + Sum(lens, k - 1)

\* m[g]: the text captured by group g of a successful match.
Group(m, regex, text, g) ==
    LET items == regex[m.alt]
        first == CHOOSE k \in 1..Len(items) :
                     items[k].g = g /\ \A j \in 1..(k - 1) : items[j].g # g
        before == Sum(m.lens, first - 1)
        len == Sum([k \in 1..Len(items) |-> IF items[k].g = g THEN m.lens[k] ELSE 0],
                   Len(items))
    IN  SubSeq(text, m.start + before, m.start + before + len - 1)

DigitValue(c) == CHOOSE n \in 0..9 : c = <<"0", "1", "2", "3", "4", "5", "6", "7", "8", "9">>[n + 1]

\* parseInt(text, 10) of a text of digits.
RECURSIVE parseInt(_)
parseInt(text) ==
    IF text = <<>> THEN 0
    ELSE 10 * parseInt(SubSeq(text, 1, Len(text) - 1)) + DigitValue(text[Len(text)])

Dotted4(g) ==
    <<Plus(Digit, g), One({"."}, g), Plus(Digit, g), One({"."}, g),
      Plus(Digit, g), One({"."}, g), Plus(Digit, g)>>

Arrow == <<Star(WhiteSpace, 0), One({">"}, 0), Star(WhiteSpace, 0)>>

\* /(\d+\.\d+\.\d+\.\d+)\s*>\s*(\d+\.\d+\.\d+\.\d+)/
ipRegex == <<Dotted4(1) \o Arrow \o Dotted4(2)>>

\* /(TCP|UDP|ICMP)/
protocolRegex ==
    <<Word(<<"T", "C", "P">>, 1), Word(<<"U", "D", "P">>, 1), Word(<<"I", "C", "M", "P">>, 1)>>

\* /length (\d+)/
lengthRegex == <<Word(<<"l", "e", "n", "g", "t", "h", " ">>, 0) \o <<Plus(Digit, 1)>>>>

\* /(\d+)\.(\d+)\s*>\s*(\d+)\.(\d+)/
portRegex ==
    <<<<Plus(Digit, 1), One({"."}, 0), Plus(Digit, 2)>> \o Arrow
      \o <<Plus(Digit, 3), One({"."}, 0), Plus(Digit, 4)>>>>

\* /Flags \[([^\]]+)\]/
flagsRegex ==
    <<Word(<<"F", "l", "a", "g", "s", " ", "[">>, 0)
      \o <<PlusNot({"]"}, 1), One({"]"}, 0)>>>>

\* /ttl (\d+)/
ttlRegex == <<Word(<<"t", "t", "l", " ">>, 0) \o <<Plus(Digit, 1)>>>>

\* /win (\d+)/
windowRegex == <<Word(<<"w", "i", "n", " ">>, 0) \o <<Plus(Digit, 1)>>>>

\* /cksum (\d+)/
checksumRegex == <<Word(<<"c", "k", "s", "u", "m", " ">>, 0) \o <<Plus(Digit, 1)>>>>

\* packet.key = value
Assign(packet, key, value) == (key :> value) @@ packet

NoFields == [key \in {} |-> 0]

\* `if (m) packet.key = m[g]`: the field set, its text kept or handed to parseInt.
Field(text, regex, key, g, number) ==
    LET m == match(text, regex)
    IN  IF ~m.ok THEN NoFields
        ELSE IF number THEN key :> parseInt(Group(m, regex, text, g))
        ELSE key :> Group(m, regex, text, g)

\* The body of the loop of processPacket up to the test of Object.keys; no
\* two statements set the same field.
parseLine(line, t) ==
    [timestamp |-> t]
    @@ Field(line, ipRegex, "sourceIP", 1, FALSE)
    @@ Field(line, ipRegex, "destIP", 2, FALSE)
    @@ Field(line, protocolRegex, "protocol", 1, FALSE)
    @@ Field(line, lengthRegex, "length", 1, TRUE)
    @@ Field(line, portRegex, "sourcePort", 2, TRUE)
    @@ Field(line, portRegex, "destPort", 4, TRUE)
    @@ Field(line, flagsRegex, "flags", 1, FALSE)
    @@ Field(line, ttlRegex, "ttl", 1, TRUE)
    @@ Field(line, windowRegex, "window", 1, TRUE)
    @@ Field(line, checksumRegex, "checksum", 1, TRUE)

\* !line.trim()
Blank(line) == \A i \in 1..Len(line) : line[i] \in WhiteSpace

\* Faulty variant of Emitted: a record holding the timestamp alone passes.
EmittedAlways(packet) == Cardinality(DOMAIN packet) > 0

\* Object.keys(packet).length > 1
Emitted(packet) == Cardinality(DOMAIN packet) > 1

\* text.split(sep)
RECURSIVE split(_, _)
split(text, sep) ==
    IF \A i \in 1..Len(text) : text[i] # sep THEN <<text>>
    ELSE LET n == CHOOSE i \in 1..Len(text) :
                      text[i] = sep /\ \A j \in 1..(i - 1) : text[j] # sep
         IN  <<SubSeq(text, 1, n - 1)>> \o split(SubSeq(text, n + 1, Len(text)), sep)

\* The 'packet' events of one call, in order.  No statement of the try
\* block can throw, the catch block is never entered.
RECURSIVE packetsOf(_, _)
packetsOf(lines, t) ==
    IF lines = <<>> THEN <<>>
    ELSE LET packet == parseLine(Head(lines), t)
         IN  (IF ~Blank(Head(lines)) /\ Emitted(packet) THEN <<packet>> ELSE <<>>)
             \o packetsOf(Tail(lines), t)

(***************************************************************************)
(* Output of the capture process: lines of tcpdump -n, and the chunks in   *)
(* which its stdout delivers them.                                         *)
(***************************************************************************)
\* "10.0.0.5.4000 > 10.0.0.9.80: Flags [S], length 1500"
LinePorts ==
    <<"1", "0", ".", "0", ".", "0", ".", "5", ".", "4", "0", "0", "0", " ",
      ">", " ", "1", "0", ".", "0", ".", "0", ".", "9", ".", "8", "0", ":",
      " ", "F", "l", "a", "g", "s", " ", "[", "S", "]", ",", " ", "l", "e",
      "n", "g", "t", "h", " ", "1", "5", "0", "0">>

\* "IP 10.0.0.5 > 10.0.0.9: ICMP echo request, length 64"
LinePlain ==
    <<"I", "P", " ", "1", "0", ".", "0", ".", "0", ".", "5", " ", ">", " ",
      "1", "0", ".", "0", ".", "0", ".", "9", ":", " ", "I", "C", "M", "P",
      " ", "e", "c", "h", "o", " ", "r", "e", "q", "u", "e", "s", "t", ",",
      " ", "l", "e", "n", "g", "t", "h", " ", "6", "4">>

\* "IP 10.0.0.7 > 10.0.0.9: UDP, length 1501"
LineProto ==
    <<"I", "P", " ", "1", "0", ".", "0", ".", "0", ".", "7", " ", ">", " ",
      "1", "0", ".", "0", ".", "0", ".", "9", ":", " ", "U", "D", "P", ",",
      " ", "l", "e", "n", "g", "t", "h", " ", "1", "5", "0", "1">>

\* "ttl 64, win 512, cksum 7"
LineOptions ==
    <<"t", "t", "l", " ", "6", "4", ",", " ", "w", "i", "n", " ", "5", "1",
      "2", ",", " ", "c", "k", "s", "u", "m", " ", "7">>

\* "length 60"
LineLength ==
    <<"l", "e", "n", "g", "t", "h", " ", "6", "0">>

\* "listening on eth0"
LineNoToken ==
    <<"l", "i", "s", "t", "e", "n", "i", "n", "g", " ", "o", "n", " ", "e",
      "t", "h", "0">>

\* "IP 10.0.0.5.4000 > 10.0.0.9.53: UDP, length 8"
LinePortsProto ==
    <<"I", "P", " ", "1", "0", ".", "0", ".", "0", ".", "5", ".", "4", "0",
      "0", "0", " ", ">", " ", "1", "0", ".", "0", ".", "0", ".", "9", ".",
      "5", "3", ":", " ", "U", "D", "P", ",", " ", "l", "e", "n", "g", "t",
      "h", " ", "8">>

\* " \t"
LineSpaces ==
    <<" ", "\t">>

Lines == {LinePorts, LinePlain, LineProto, LinePortsProto, LineOptions, LineLength,
          LineNoToken, LineSpaces, <<>>}

\* A line delivered in two chunks: "IP 10.0.0.5 > 10." and the rest.
PlainHalves ==
    <<SubSeq(LinePlain, 1, 17), SubSeq(LinePlain, 18, Len(LinePlain)) \o <<"\n">>>>

Chunks ==
    {l \o <<"\n">> : l \in Lines}
    \cup {LinePorts \o <<"\n">> \o l \o <<"\n">> : l \in {LinePlain, LineNoToken}}
    \cup {PlainHalves[1], PlainHalves[2]}

\* The chunks the whole pipeline is run on: a record with addresses, one
\* without, no record, two records.
PipelineChunks ==
    {l \o <<"\n">> : l \in {LinePlain, LineLength, LineNoToken}}
    \cup {LinePorts \o <<"\n">> \o LinePlain \o <<"\n">>}

\* processPacket at time 0 on every chunk, evaluated once.
Parsed == [rawPacket \in Chunks |-> packetsOf(split(rawPacket, "\n"), 0)]

\* processPacket at time t: every record carries the Date.now() of its call.
processPacket(rawPacket, t) ==
    [i \in 1..Len(Parsed[rawPacket]) |-> Assign(Parsed[rawPacket][i], "timestamp", t)]

\* The 'data' listener startCapture registers on the stdout of each process.
StdoutData ==
    /\ \E p \in 1..Len(tap.procs) : tap.procs[p] \in {"alive", "killed"}
    /\ \E data \in Chunks :
          tap' = [tap EXCEPT !.rawPacket = data, !.packets = processPacket(data, now)]
    /\ tapCall' = [op |-> "data", result |-> "returned"]
    /\ UNCHANGED <<provider, routerVars, detVars, orchVars>>

(***************************************************************************)
(* AnomalyDetector.train().  `det` holds the fields isTraining and         *)
(* lastTrainingTime and, outside the object,                               *)
(*   inflight          POST /train requests sent and not yet settled       *)
(*   sent              POST /train requests sent so far                    *)
(*   trainingComplete  'trainingComplete' events emitted so far            *)
(***************************************************************************)
DetResult(d, result) == [d |-> d, result |-> result]

\* Faulty variant of TrainGuard: the isTraining check left out.
TrainGuardMissing(d) == FALSE

TrainGuard(d) == d.isTraining

\* train() up to its await of the request.
trainBegin(d) ==
    IF TrainGuard(d) THEN DetResult(d, "TrainingInProgress")
    ELSE DetResult([d EXCEPT !.isTraining = TRUE, !.inflight = @ + 1, !.sent = @ + 1],
                   "pending")

\* Faulty variant of trainSettled: the time recorded in the finally block.
trainSettledStampsAlways(d, ok, t) ==
    LET d1 == IF ok THEN [d EXCEPT !.trainingComplete = @ + 1] ELSE d
    IN  DetResult([d1 EXCEPT !.lastTrainingTime = t, !.isTraining = FALSE,
                             !.inflight = @ - 1],
                  IF ok THEN "returned" ELSE "ServiceCallError")

\* Faulty variant of trainSettled: the flag cleared in the try block only.
trainSettledLocksOnError(d, ok, t) ==
    LET d1 == IF ok THEN [d EXCEPT !.lastTrainingTime = t, !.trainingComplete = @ + 1,
                                   !.isTraining = FALSE]
              ELSE d
    IN  DetResult([d1 EXCEPT !.inflight = @ - 1],
                  IF ok THEN "returned" ELSE "ServiceCallError")

\* train() from the settling of its request on: try, catch and finally.
trainSettled(d, ok, t) ==
    LET d1 == IF ok THEN [d EXCEPT !.lastTrainingTime = t, !.trainingComplete = @ + 1]
              ELSE d
    IN  DetResult([d1 EXCEPT !.isTraining = FALSE, !.inflight = @ - 1],
                  IF ok THEN "returned" ELSE "ServiceCallError")

DetInit ==
    /\ det = [isTraining |-> FALSE, lastTrainingTime |-> 0, inflight |-> 0, sent |-> 0,
              trainingComplete |-> 0]
    /\ detCall = [op |-> "none", served |-> TRUE, result |-> "returned"]
    /\ now = 1

CallTrain ==
    /\ det.sent < MaxTrainRuns
    /\ LET res == trainBegin(det)
       IN  /\ det' = res.d
           /\ detCall' = IF res.result = "pending" THEN detCall
                         ELSE [op |-> "train", served |-> TRUE, result |-> res.result]
    /\ UNCHANGED <<provider, now, routerVars, tapVars, orchVars>>

TrainRequestSettles ==
    /\ det.inflight > 0
    /\ \E ok \in BOOLEAN :
          LET res == trainSettled(det, ok, now)
          IN  /\ det' = res.d
              /\ detCall' = [op |-> "trainSettled", served |-> ok, result |-> res.result]
    /\ UNCHANGED <<provider, now, routerVars, tapVars, orchVars>>

Tick ==
    /\ now < MaxClock
    /\ now' = now + 1
    /\ UNCHANGED <<provider, det, detCall, routerVars, tapVars, orchVars>>

(***************************************************************************)
(* FeatureExtractor.  A number is the fraction num / den, 0 / 0 is NaN.    *)
(* A property that a value does not hold reads as undefined.               *)
(***************************************************************************)
Ratio(n, d) == [num |-> n, den |-> d]

NaN == Ratio(0, 0)

Has(packet, key) == key \in DOMAIN packet

protocols ==
    <<<<"T", "C", "P">>, <<"U", "D", "P">>, <<"I", "C", "M", "P">>,
      <<"H", "T", "T", "P">>, <<"H", "T", "T", "P", "S">>>>

\* new Date(timestamp).getHours(): a reading of the clock stands for an hour.
getHours(timestamp) == timestamp % 24

extractTimeFeatures(packet) ==
    IF Has(packet, "timestamp") THEN Ratio(getHours(packet.timestamp), 24) ELSE NaN

RECURSIVE SumOctets(_)
SumOctets(octets) ==
    IF octets = <<>> THEN 0 ELSE parseInt(Head(octets)) + SumOctets(Tail(octets))

\* The addresses the parser yields on the sample lines.
Addresses ==
    {<<"1", "0", ".", "0", ".", "0", ".", "5">>, <<"1", "0", ".", "0", ".", "0", ".", "7">>,
     <<"1", "0", ".", "0", ".", "0", ".", "9">>,
     <<"0", ".", "0", ".", "5", ".", "4", "0", "0", "0">>}

\* ip.split('.').map(Number) summed, evaluated once per address.
OctetSum == [ip \in Addresses |-> SumOctets(split(ip, "."))]

extractIPFeatures(ip) == Ratio(OctetSum[ip], 1020)

\* ok: no TypeError was raised; ip.split raises it on an undefined address.
extract(packet) ==
    IF ~Has(packet, "sourceIP") \/ ~Has(packet, "destIP")
    THEN [ok |-> FALSE, features |-> <<>>]
    ELSE [ok |-> TRUE,
          features |->
              <<IF Has(packet, "length") THEN Ratio(packet.length, 1500) ELSE NaN>>
              \o [i \in 1..Len(protocols) |->
                     IF Has(packet, "protocol") /\ packet.protocol = protocols[i]
                     THEN Ratio(1, 1) ELSE Ratio(0, 1)]
              \o <<extractTimeFeatures(packet), extractIPFeatures(packet.sourceIP),
                   extractIPFeatures(packet.destIP)>>]

\* private featureCount: number = 10
featureCount == 10

getFeatureCount == featureCount

\* The properties extract reads that an array of numbers holds.
ArrayProps(features) == [length |-> Len(features)]

(***************************************************************************)
(* AnomalyDetector.detectAnomaly.  A verdict is what the scoring service   *)
(* does with one request: replied FALSE is a failed request, confidence is *)
(* in hundredths.                                                          *)
(***************************************************************************)
Confidences == {85, 95}

Verdicts ==
    {[replied |-> FALSE, isAnomaly |-> FALSE, confidence |-> 0]}
    \cup {[replied |-> TRUE, isAnomaly |-> FALSE, confidence |-> 95]}
    \cup {[replied |-> TRUE, isAnomaly |-> TRUE, confidence |-> c] : c \in Confidences}

\* sent: POST /predict was issued, with `body` as its features.
detectAnomaly(packet, verdict) ==
    LET f == extract(packet)
    IN  IF ~f.ok THEN [ok |-> FALSE, sent |-> FALSE, body |-> <<>>]
        ELSE [ok |-> verdict.replied, sent |-> TRUE, body |-> f.features]

(***************************************************************************)
(* NetworkOrchestrator.  `orch` holds the fields isRunning and             *)
(* anomalyThreshold (in hundredths) and, outside the object,               *)
(*   starts     start() calls made so far                                  *)
(*   starting   start() calls suspended at `await initialize()`            *)
(*   intervals  setInterval timers registered, none is ever cleared        *)
(*   errors     'error' events emitted so far                              *)
(*   handled    what handlePacket did with each 'packet' event of the      *)
(*              latest chunk of capture output: handled[i] with            *)
(*              tap.packets[i]                                             *)
(*   suspended  runs of handlePacket on the latest chunk that were         *)
(*              suspended at an await when the 'data' listener returned:   *)
(*              processPacket emits every 'packet' event of a chunk        *)
(*              before any run resumes                                     *)
(* NetworkTap.start, NetworkTap.stop, RouterManager.blockIP and            *)
(* RouterManager.setBandwidthLimit are called and defined nowhere in the   *)
(* sources: they are modelled as section 4.5 of the specification          *)
(* describes them.                                                         *)
(***************************************************************************)
\* config.anomalyThreshold: 0 when absent.
ConfiguredThresholds == {0, 95}

\* config.anomalyThreshold || 0.8
anomalyThreshold(configured) == IF configured = 0 THEN 80 ELSE configured

\* "starts Capture Adapter on a configured interface"
tapStart(t, spawns) == startCapture(t, spawns)

\* "stops capture"
tapStop(t) == stopCapture(t)

\* "block the source address entirely", through the session of the device.
blockIP(r, ip, accepted) ==
    IF ~r.isConnected \/ ~accepted THEN Raised(r)
    ELSE Returned([r EXCEPT !.trace = Append(@, "blockIP")])

\* "apply a bandwidth limit (fixed 1 Mbps) to the source address"
setBandwidthLimit(r, ip, mbps, accepted) ==
    IF ~r.isConnected \/ ~accepted THEN Raised(r)
    ELSE Returned([r EXCEPT !.trace = Append(@, "setBandwidthLimit")])

Undefined == <<>>

Read(packet, key) == IF Has(packet, key) THEN packet[key] ELSE Undefined

\* What one run of handlePacket did: extracted (line 102 returned) and
\* features (the vector it returned), requested (the scoring request was
\* sent) and body (its features), scored (it was answered), stats (getStats
\* returned), response and target (the response action invoked, "none" if
\* none, and its address), completed (it returned), event ('anomaly' was
\* emitted), raised (the handler rejected).
Unhandled(r, packet, verdict) ==
    [r |-> r, packet |-> packet, verdict |-> verdict, extracted |-> FALSE,
     features |-> <<>>, requested |-> FALSE, body |-> <<>>, scored |-> FALSE, stats |-> FALSE, response |-> "none",
     target |-> Undefined, limit |-> 0, completed |-> FALSE, event |-> FALSE,
     raised |-> TRUE]

\* The response of handleAnomaly to a confidence.
Tier(confidence) ==
    IF confidence > 90 THEN "blockIP"
    ELSE IF confidence > 80 THEN "setBandwidthLimit"
    ELSE "none"

\* handleAnomaly on the run h of handlePacket; whatever its try block raises
\* is logged by its catch block.
handleAnomaly(h, answers, accepted) ==
    LET s == getStats(h.r, answers)
        ip == Read(h.packet, "sourceIP")
        action == Tier(h.verdict.confidence)
        w == CASE action = "blockIP" -> blockIP(s.r, ip, accepted)
               [] action = "setBandwidthLimit" -> setBandwidthLimit(s.r, ip, 1, accepted)
               [] OTHER -> Returned(s.r)
    IN  IF ~s.ok THEN [h EXCEPT !.r = s.r, !.raised = FALSE]
        ELSE [h EXCEPT !.r = w.r, !.stats = TRUE, !.response = action,
                       !.target = IF action = "none" THEN Undefined ELSE ip,
                       !.limit = IF action = "setBandwidthLimit" THEN 1 ELSE 0,
                       !.completed = action # "none" /\ w.ok,
                       !.event = w.ok, !.raised = FALSE]

\* The try block of handlePacket; raised: it left the block by an exception.
handlePacketTry(r, threshold, packet, verdict, answers, accepted) ==
    LET h0 == Unhandled(r, packet, verdict)
        f == extract(packet)
        d == detectAnomaly(ArrayProps(f.features), verdict)
        h1 == [h0 EXCEPT !.extracted = TRUE, !.features = f.features,
                         !.requested = d.sent, !.body = d.body, !.scored = d.ok]
    IN  IF ~f.ok THEN h0
        ELSE IF ~d.ok THEN h1
        ELSE IF verdict.isAnomaly /\ verdict.confidence >= threshold
        THEN handleAnomaly(h1, answers, accepted)
        ELSE [h1 EXCEPT !.raised = FALSE]

\* Faulty variant of Caught: the exception leaves the handler.
Uncaught(h) == h

\* catch (error) { console.error(...) }
Caught(h) == [h EXCEPT !.raised = FALSE]

handlePacket(r, threshold, packet, verdict, answers, accepted) ==
    Caught(handlePacketTry(r, threshold, packet, verdict, answers, accepted))

\* The 'packet' listener on every record of one chunk, in order.
RECURSIVE handleAll(_, _, _, _, _, _)
handleAll(r, threshold, packets, verdict, answers, accepted) ==
    IF packets = <<>> THEN [r |-> r, handled |-> <<>>, suspended |-> 0]
    ELSE LET h == handlePacket(r, threshold, Head(packets), verdict, answers, accepted)
             rest == handleAll(h.r, threshold, Tail(packets), verdict, answers, accepted)
         IN  [r |-> rest.r,
              handled |-> <<[k \in DOMAIN h \ {"r", "packet"} |-> h[k]]>> \o rest.handled,
              suspended |-> (IF h.extracted THEN 1 ELSE 0) + rest.suspended]

\* handleError: the 'error' listener on the tap.
handleError(o, n) == [o EXCEPT !.errors = @ + n]

Started(o, r, t, outcome) == [o |-> o, r |-> r, t |-> t, outcome |-> outcome]

\* start() up to `await this.anomalyDetector.initialize()`.
startBegin(o, r, t, answers, spawns) ==
    IF o.isRunning THEN Started(o, r, t, "returned")
    ELSE LET c == connect(r, answers)
             s == tapStart(t, spawns)
         IN  IF ~c.ok THEN Started(o, c.r, t, "raised")
             ELSE IF s.result # "returned" THEN Started(o, c.r, t, s.result)
             ELSE Started([o EXCEPT !.starting = @ + 1], c.r, s.t, "pending")

setupPeriodicTraining(o) == [o EXCEPT !.intervals = @ + 1]

\* start() from the settling of the health request on.
startSettled(o, healthy) ==
    IF healthy
    THEN [o |-> [setupPeriodicTraining(o) EXCEPT !.starting = @ - 1, !.isRunning = TRUE],
          outcome |-> "returned"]
    ELSE [o |-> [o EXCEPT !.starting = @ - 1], outcome |-> "ServiceUnavailable"]

stop(o, r, t) ==
    IF ~o.isRunning THEN Started(o, r, t, "returned")
    ELSE Started([o EXCEPT !.isRunning = FALSE], disconnect(r).r, tapStop(t).t, "returned")

FreshOrchestrator(configured) ==
    [isRunning |-> FALSE, anomalyThreshold |-> anomalyThreshold(configured),
     starts |-> 0, starting |-> 0, intervals |-> 0, errors |-> 0, handled |-> <<>>,
     suspended |-> 0]

OrchStart(configs) ==
    /\ orch \in { FreshOrchestrator(c) : c \in configs }
    /\ orchCall = [op |-> "none", result |-> "returned", healthy |-> TRUE]

OrchInit == OrchStart(ConfiguredThresholds)

OrchIdle == OrchStart({0})

CallStart ==
    /\ orch.starts < MaxStarts
    /\ \E spawns \in BOOLEAN :
          LET res == startBegin([orch EXCEPT !.starts = @ + 1], Begin(rm), tap,
                                deviceAnswers, spawns)
          IN  /\ orch' = res.o
              /\ rm' = IF orch.isRunning THEN rm ELSE res.r
              /\ tap' = res.t
              /\ orchCall' = IF res.outcome = "pending" THEN orchCall
                             ELSE [op |-> "start", result |-> res.outcome, healthy |-> TRUE]
              /\ call' = IF orch.isRunning THEN call
                         ELSE Outcome("connect", Returned(rm'), NoPolicy, 0, TRUE)
              /\ hist' = IF orch.isRunning THEN hist
                         ELSE [hist EXCEPT !.userConnects = @ + 1,
                                           !.attempts = Attempted(hist, rm),
                                           !.expected = @ \/ deviceAnswers]
    /\ UNCHANGED <<provider, deviceAnswers, tapCall, detVars>>

InitializeSettles ==
    /\ orch.starting > 0
    /\ \E healthy \in BOOLEAN :
          LET res == startSettled(orch, healthy)
          IN  /\ orch' = res.o
              /\ orchCall' = [op |-> "start", result |-> res.outcome, healthy |-> healthy]
    /\ UNCHANGED <<provider, routerVars, tapVars, detVars>>

CallStop ==
    /\ LET res == stop(orch, Begin(rm), tap)
       IN  /\ orch' = res.o
           /\ rm' = IF orch.isRunning THEN res.r ELSE rm
           /\ tap' = res.t
           /\ orchCall' = [op |-> "stop", result |-> res.outcome, healthy |-> TRUE]
           /\ hist' = IF orch.isRunning THEN [hist EXCEPT !.expected = FALSE] ELSE hist
    /\ UNCHANGED <<provider, deviceAnswers, call, tapCall, detVars>>

\* A chunk of capture output reaches the 'data' listener of the tap, and each
\* 'packet' event it emits the listener of the orchestrator.
CaptureData ==
    /\ \E p \in 1..Len(tap.procs) : tap.procs[p] \in {"alive", "killed"}
    /\ \E data \in PipelineChunks :
          tap' = [tap EXCEPT !.rawPacket = data, !.packets = processPacket(data, now)]
    /\ \E verdict \in Verdicts :
       \E accepted \in IF verdict.isAnomaly THEN BOOLEAN ELSE {TRUE} :
          LET res == handleAll(rm, orch.anomalyThreshold, tap'.packets, verdict,
                               deviceAnswers, accepted)
          IN  /\ rm' = res.r
              /\ orch' = [orch EXCEPT !.handled = res.handled,
                                       !.suspended = res.suspended]
    /\ tapCall' = [op |-> "data", result |-> "returned"]
    /\ UNCHANGED <<provider, deviceAnswers, call, hist, orchCall, detVars>>

\* The capture process closes: the 'close' listener of the tap, and for the
\* 'error' event it emits the listener of the orchestrator.
CaptureCloses ==
    /\ \E p \in 1..Len(tap.procs) :
          /\ tap.procs[p] \in {"alive", "killed"}
          /\ \E code \in CloseCodes(tap.procs[p]) :
                /\ tap' = onClose(tap, p, code)
                /\ orch' = handleError(orch, tap'.errors - tap.errors)
    /\ tapCall' = [op |-> "close", result |-> "returned"]
    /\ UNCHANGED <<provider, routerVars, orchCall, detVars>>

\* A tick of an interval setupPeriodicTraining registered: the callback calls
\* train() up to its await and catches what it raises, there or when the
\* request settles, with console.error.
TrainingTimerFires ==
    /\ orch.intervals > 0
    /\ det.sent < MaxTrainRuns
    /\ LET res == trainBegin(det)
       IN  /\ det' = res.d
           /\ detCall' = IF res.result = "pending" THEN detCall
                         ELSE [op |-> "train", served |-> TRUE, result |-> res.result]
    /\ UNCHANGED <<provider, now, routerVars, tapVars, orchVars>>

(***************************************************************************)
(* NetworkDataProvider (NetworkDataContext.tsx): the 'packet' listener on   *)
(* the socket.  `provider` holds the states packets (newest first),        *)
(* anomalies, detectionCount and threatLevel; a confidence is in           *)
(* hundredths.                                                             *)
(***************************************************************************)
\* The 'packet' messages of the socket: length, details.protocol and
\* details.destination_port.
SocketPackets ==
    [length : {1500, 1501},
     details : [protocol : {"TCP", "UDP"}, destination_port : {22, 3389, 80}]]

\* Faulty variant of Suspicious: a packet of 1500 bytes counts as large.
SuspiciousFrom1500(packet) ==
    \/ packet.length >= 1500
    \/ /\ packet.details.protocol = "TCP"
       /\ packet.details.destination_port \in {22, 3389}

\* The condition of the anomaly check.
Suspicious(packet) ==
    \/ packet.length > 1500
    \/ /\ packet.details.protocol = "TCP"
       /\ packet.details.destination_port \in {22, 3389}

\* The listener: the state updates it queues, applied in order.
onPacket(p, packet) ==
    LET p1 == [p EXCEPT !.packets = <<packet>> \o @]
    IN  IF Suspicious(packet)
        THEN [p1 EXCEPT !.anomalies = Append(@, [protocol |-> packet.details.protocol,
                                                 length |-> packet.length,
                                                 confidence |-> 90,
                                                 type |-> "suspicious_traffic",
                                                 resolved |-> FALSE]),
                        !.detectionCount = @ + 1,
                        !.threatLevel = "high"]
        ELSE p1

ProviderInit ==
    provider = [packets |-> <<>>, anomalies |-> <<>>, detectionCount |-> 0,
                threatLevel |-> "low"]

SocketPacket ==
    /\ Len(provider.packets) < MaxSocketPackets
    /\ \E packet \in SocketPackets : provider' = onPacket(provider, packet)
    /\ UNCHANGED <<routerVars, tapVars, detVars, orchVars>>

(***************************************************************************)
(* Specifications: one per component, the other components idle, one of   *)
(* the rule translation, one of the orchestrator with its tap, in which    *)
(* the reconnect timers of the RouterManager stay pending, and one of the  *)
(* orchestrator with the retraining it schedules.                          *)
(***************************************************************************)
InitRouter == RouterInit /\ TapInit /\ DetInit /\ OrchIdle /\ ProviderInit

NextRouter ==
    \/ CallConnect
    \/ RetryTimerFires
    \/ CallGetStats
    \/ CallApplyPolicy
    \/ CallDisconnect
    \/ DeviceChanges

SpecRouter == InitRouter /\ [][NextRouter]_vars

InitTap == RouterIdle /\ TapInit /\ DetInit /\ OrchIdle /\ ProviderInit

NextTap ==
    \/ CallStartCapture
    \/ CallStopCapture
    \/ ProcessCloses
    \/ StdoutData

SpecTap == InitTap /\ [][NextTap]_vars

InitDetector == RouterIdle /\ TapInit /\ DetInit /\ OrchIdle /\ ProviderInit

NextDetector ==
    \/ CallTrain
    \/ TrainRequestSettles
    \/ Tick

SpecDetector == InitDetector /\ [][NextDetector]_vars

InitPipeline == RouterIdle /\ TapInit /\ DetInit /\ OrchInit /\ ProviderInit

NextPipeline ==
    \/ CallStart
    \/ InitializeSettles
    \/ CallStop
    \/ CaptureData
    \/ CaptureCloses

SpecPipeline == InitPipeline /\ [][NextPipeline]_vars

\* The orchestrator with the retraining it schedules.
NextScheduler ==
    \/ CallStart
    \/ InitializeSettles
    \/ CallStop
    \/ TrainingTimerFires
    \/ TrainRequestSettles

SpecScheduler == InitPipeline /\ [][NextScheduler]_vars

\* The rule translation of the RouterManager, on every rule of Rules.
SpecTranslate == InitRouter /\ [][TranslateRule]_vars

InitProvider == RouterIdle /\ TapInit /\ DetInit /\ OrchIdle /\ ProviderInit

SpecProvider == InitProvider /\ [][SocketPacket]_vars

(***************************************************************************)
(* Properties.                                                             *)
(***************************************************************************)
ConnectAttempt == (CallConnect \/ RetryTimerFires) /\ ~rm.isConnected

\* C1: connect() called while disconnected, with the device answering the
\* verification read, ends connected, with the failure counter at 0 and one
\* 'connected' event emitted; no failure is counted and no retry is scheduled.
C1_ConnectSucceeds ==
    [][ConnectAttempt /\ deviceAnswers =>
          /\ rm'.isConnected
          /\ rm'.reconnectAttempts = 0
          /\ rm'.emitted.connected = rm.emitted.connected + 1
          /\ rm'.scheduled = rm.scheduled
          /\ rm'.emitted.error = rm.emitted.error]_vars

\* C2 as stated: with one connect() made by the caller and every attempt failing,
\* the 5th failed attempt is the last (nothing is pending after it, the terminal
\* error has been emitted) and the terminal error is emitted once at most.
C2_NoSixthAttempt ==
    hist.userConnects = 1 /\ rm.emitted.connected = 0 =>
        /\ hist.attempts <= 5
        /\ hist.attempts = 5 => rm.timers = 0 /\ rm.emitted.error = 1
        /\ rm.emitted.error <= 1

\* C2 as amended: with one connect() made by the caller and every attempt failing,
\* each of the first 5 failed attempts leaves one retry pending, the 6th leaves
\* none, there is no 7th, and the terminal error is emitted once, by the 6th.
C2_NoSeventhAttempt ==
    hist.userConnects = 1 /\ rm.emitted.connected = 0 =>
        /\ hist.attempts <= 6
        /\ rm.timers = IF hist.attempts < 6 THEN 1 ELSE 0
        /\ rm.emitted.error = IF hist.attempts = 6 THEN 1 ELSE 0

C2_Witness ==
    /\ hist.userConnects = 1
    /\ hist.attempts = 6
    /\ rm.timers = 0
    /\ rm.emitted.error = 1
    /\ rm.emitted.connected = 0

RuleWrites(policy, k) == [i \in 1..k |-> generatePolicyOids(policy.rules[i])]

\* C4: applyPolicy on a session that section 4.4 holds connected issues the
\* writes of its rules in rule order: all of them when the device accepts every
\* write, and those of rules 1..k, then failing, when it rejects the write of
\* rule k.
C4_WritesInRuleOrder ==
    call.op = "applyPolicy" /\ call.expected =>
        IF call.failAt = 0
        THEN rm.writes = RuleWrites(call.policy, Len(call.policy.rules))
        ELSE /\ rm.writes = RuleWrites(call.policy, call.failAt)
             /\ call.result = "raised"

\* C5: applyPolicy on a session that section 4.4 holds connected, with every
\* rule write accepted, ends with the store holding the policy under its id, the
\* whole store on disk, and 'policyApplied' emitted after the write to disk.
C5_StoredThenAnnounced ==
    call.op = "applyPolicy" /\ call.expected /\ call.failAt = 0 /\ call.writable =>
        /\ call.result = "returned"
        /\ rm.policies[call.policy.id] = call.policy
        /\ rm.disk = rm.policies
        /\ Len(rm.trace) >= 3
        /\ SubSeq(rm.trace, Len(rm.trace) - 2, Len(rm.trace))
             = <<"store", "writeFile", "policyApplied">>

\* C6: getStats() and applyPolicy() on a session that is not connected fail
\* without a device read or write and leave the failure counter, the retry
\* timers and the policy store (in memory and on disk) as they were.
C6_NotConnectedFails ==
    [][/\ hist'.calls = hist.calls + 1
        /\ call'.op \in {"getStats", "applyPolicy"}
        /\ ~rm.isConnected
        => /\ call'.result = "raised"
          /\ rm'.trace = <<>>
          /\ rm'.writes = <<>>
          /\ rm'.reconnectAttempts = rm.reconnectAttempts
          /\ rm'.timers = rm.timers
          /\ rm'.scheduled = rm.scheduled
          /\ rm'.policies = rm.policies
          /\ rm'.disk = rm.disk]_vars

C6_Witness ==
    /\ call.op = "applyPolicy"
    /\ call.result = "raised"
    /\ Len(call.policy.rules) = 2
    /\ ~rm.isConnected
    /\ rm.session = "open"
    /\ rm.timers = 1

\* C7: startCapture while a capture is running fails with AlreadyCapturing,
\* spawns no process and leaves the running flag and the process handle alone.
C7_AlreadyCapturing ==
    [][CallStartCapture /\ tap.isCapturing =>
          /\ tapCall'.result = "AlreadyCapturing"
          /\ tap'.procs = tap.procs
          /\ tap'.isCapturing
          /\ tap'.tcpdumpProcess = tap.tcpdumpProcess]_vars

C7_Witness ==
    /\ tapCall.op = "startCapture"
    /\ tapCall.result = "AlreadyCapturing"
    /\ tap.isCapturing
    /\ Len(tap.procs) = 1
    /\ tap.tcpdumpProcess = 1
    /\ tap.procs[1] = "alive"

\* C8: a second stop(), disconnect() or stopCapture() right after a first one
\* returns without raising and changes no flag, no handle and no emitted event.
C8_ShutdownIdempotent ==
    [][/\ call.op = "disconnect" /\ CallDisconnect =>
             /\ call'.result = "returned"
             /\ rm'.session = rm.session
             /\ rm'.isConnected = rm.isConnected
             /\ rm'.closes = rm.closes
             /\ rm'.emitted = rm.emitted
       /\ tapCall.op = "stopCapture" /\ CallStopCapture =>
             /\ tapCall'.result = "returned"
             /\ tap' = tap
       /\ orchCall.op = "stop" /\ CallStop =>
             /\ orchCall'.result = "returned"
             /\ orch' = orch]_vars

\* C9: at most one training request is in flight; train() called while one is
\* unresolved fails at once with TrainingInProgress, sends nothing, and leaves
\* the pending request and the in-progress flag as they were.
C9_SingleFlight ==
    /\ [](det.inflight <= 1)
    /\ [][CallTrain /\ det.inflight > 0 =>
             /\ detCall'.op = "train"
             /\ detCall'.result = "TrainingInProgress"
             /\ det' = det]_vars

C9_Witness ==
    /\ detCall.op = "train"
    /\ detCall.result = "TrainingInProgress"
    /\ det.inflight = 1
    /\ det.isTraining
    /\ det.sent = 1

\* C10: a training request that succeeds records the time as last-training time
\* and emits exactly one 'trainingComplete'; one that fails emits none, leaves
\* the last-training time alone and raises the error to the caller.
C10_TrainOutcome ==
    [][TrainRequestSettles =>
          IF detCall'.served
          THEN /\ detCall'.result = "returned"
               /\ det'.lastTrainingTime = now
               /\ det'.trainingComplete = det.trainingComplete + 1
          ELSE /\ detCall'.result = "ServiceCallError"
               /\ det'.lastTrainingTime = det.lastTrainingTime
               /\ det'.trainingComplete = det.trainingComplete]_vars

C10_Witness ==
    /\ detCall.op = "trainSettled"
    /\ ~detCall.served
    /\ detCall.result = "ServiceCallError"
    /\ det.trainingComplete = 1
    /\ det.lastTrainingTime > 0
    /\ det.lastTrainingTime < now

\* The run h of handlePacket is of a packet the scoring service scores as an
\* anomaly with a confidence of at least the configured threshold.
Qualifies(h) ==
    /\ h.verdict.replied
    /\ h.verdict.isAnomaly
    /\ h.verdict.confidence >= orch.anomalyThreshold

\* C11: a packet scored as an anomaly with confidence >= threshold gets its
\* source address blocked when confidence > 0.9 and limited to 1 Mbps when
\* 0.8 < confidence <= 0.9; for any other packet no response action is invoked.
C11_ResponseSelection ==
    \A i \in 1..Len(orch.handled) :
        LET h == orch.handled[i]
            c == h.verdict.confidence
        IN  /\ Qualifies(h) /\ c > 90 =>
                  /\ h.response = "blockIP"
                  /\ h.target = Read(tap.packets[i], "sourceIP")
            /\ Qualifies(h) /\ c > 80 /\ c <= 90 =>
                  /\ h.response = "setBandwidthLimit"
                  /\ h.target = Read(tap.packets[i], "sourceIP")
                  /\ h.limit = 1
            /\ ~Qualifies(h) => h.response = "none"

\* C12: when getStats() fails while a qualifying anomaly is handled, the
\* response action for that packet (block or bandwidth limit) is still invoked.
C12_StatsBestEffort ==
    \A i \in 1..Len(orch.handled) :
        LET h == orch.handled[i]
        IN  Qualifies(h) /\ Tier(h.verdict.confidence) # "none" /\ ~h.stats =>
                h.response = Tier(h.verdict.confidence)

\* The number of response actions invoked in the run h of handlePacket.
Invocations(h) == IF h.response = "none" THEN 0 ELSE 1

\* C13: every PacketRecord the tap emits is handled exactly once, and for each
\* detected anomaly the response action is invoked exactly once.
C13_ExactlyOnce ==
    /\ Len(orch.handled) = Len(tap.packets)
    /\ \A i \in 1..Len(orch.handled) :
           Qualifies(orch.handled[i]) => Invocations(orch.handled[i]) = 1

\* C14: no failure of detectAnomaly, getStats or the response action for a
\* packet is raised out of handlePacket, every packet of a chunk is handled,
\* a packet for which detectAnomaly failed gets no response action and no
\* 'anomaly' event, and no step that handles packets changes the running flag
\* or the outcome of start() and stop().
C14_ErrorIsolation ==
    /\ [](/\ Len(orch.handled) = Len(tap.packets)
          /\ \A i \in 1..Len(orch.handled) :
                LET h == orch.handled[i]
                IN  /\ ~h.raised
                    /\ ~h.scored => h.response = "none" /\ ~h.event)
    /\ [][tap'.packets # tap.packets \/ orch'.handled # orch.handled =>
             /\ orch'.isRunning = orch.isRunning
             /\ orchCall' = orchCall]_vars

C14_Witness ==
    /\ tapCall.op = "data"
    /\ orch.isRunning
    /\ Len(orch.handled) = 2
    /\ orch.handled[1].extracted
    /\ ~orch.handled[1].scored
    /\ ~orch.handled[1].raised
    /\ orch.handled[2].extracted
    /\ ~orch.handled[2].raised

\* C15: a stop() that follows a failed start() stops the capture and leaves no
\* session of the policy manager open.
C15_PartialStartStoppable ==
    [][orchCall.op = "start" /\ orchCall.result # "returned" /\ CallStop =>
          /\ ~tap'.isCapturing
          /\ rm'.session # "open"]_vars

\* C16: start() fails when the connect of the policy manager, the capture start
\* or the scorer's initialize fails, and sets the running flag and schedules
\* the periodic retraining only when all three succeeded.
C16_StartAllOrNothing ==
    [][CallStart \/ InitializeSettles =>
          LET allSucceeded == /\ rm'.isConnected
                              /\ Len(tap'.procs) > 0
                              /\ orchCall'.healthy
          IN  /\ ~orch.isRunning /\ orchCall'.op = "start"
                     /\ orchCall' # orchCall /\ orchCall'.result = "returned" => allSucceeded
              /\ orch'.isRunning /\ ~orch.isRunning => allSucceeded
              /\ orch'.intervals > orch.intervals => allSucceeded]_vars

\* C17: when disconnect() has returned no session is open, and until the
\* caller invokes connect() again no connect attempt is made and no session is
\* opened, not even by a retry the backoff path had scheduled.
C17_DisconnectReleases ==
    [][/\ CallDisconnect => rm'.session # "open"
       /\ call.op = "disconnect" /\ ~CallConnect =>
             /\ rm'.session # "open"
             /\ hist'.attempts = hist.attempts]_vars

\* C18: the exit of the capture process leaves the session stopped and emits
\* at most one 'error' event, and none when the session was no longer running
\* (the exit follows stopCapture()).
C18_ProcessExit ==
    [][ProcessCloses =>
          /\ ~tap'.isCapturing
          /\ tap'.errors <= tap.errors + 1
          /\ ~tap.isCapturing => tap'.errors = tap.errors]_vars

\* C19: every PacketRecord emitted for a chunk of output carries a parsed field
\* besides the timestamp; blank lines and lines without a recognizable token
\* emit no record, and no error is raised or emitted.
C19_EmissionInvariant ==
    [][StdoutData =>
          /\ tapCall'.result = "returned"
          /\ tap'.errors = tap.errors
          /\ \A i \in 1..Len(tap'.packets) :
                /\ "timestamp" \in DOMAIN tap'.packets[i]
                /\ DOMAIN tap'.packets[i] \ {"timestamp"} # {}
          /\ tap'.rawPacket \in {l \o <<"\n">> : l \in {LineNoToken, LineSpaces, <<>>}} =>
                tap'.packets = <<>>
          /\ tap'.rawPacket = LinePorts \o <<"\n">> \o LineNoToken \o <<"\n">> =>
                Len(tap'.packets) = 1]_vars

C19_Witness ==
    /\ tapCall.op = "data"
    /\ tap.rawPacket = LinePorts \o <<"\n">> \o LineNoToken \o <<"\n">>
    /\ Len(tap.packets) = 1
    /\ DOMAIN tap.packets[1] = {"timestamp", "sourceIP", "destIP", "length",
                                 "sourcePort", "destPort", "flags"}

\* C20: for the line "10.0.0.5.4000 > 10.0.0.9.80: Flags [S], length 1500" one
\* PacketRecord is emitted, with sourceIP 10.0.0.5, destPort 80, no protocol,
\* length 1500 and flags "S".
C20_ConcreteScenario ==
    tap.rawPacket = LinePorts \o <<"\n">> =>
        /\ Len(tap.packets) = 1
        /\ Read(tap.packets[1], "sourceIP") = <<"1", "0", ".", "0", ".", "0", ".", "5">>
        /\ Read(tap.packets[1], "destPort") = 80
        /\ ~Has(tap.packets[1], "protocol")
        /\ Read(tap.packets[1], "length") = 1500
        /\ Read(tap.packets[1], "flags") = <<"S">>

\* C21: a line with an address pair "A > B" and a protocol token gives a
\* PacketRecord with sourceIP A, destIP B and that protocol, with or without
\* port suffixes on the addresses.
C21_AddressPairExact ==
    LET Record(line) == IF tap.rawPacket = line \o <<"\n">> /\ Len(tap.packets) = 1
                        THEN tap.packets[1] ELSE NoFields
        Is(line, A, B, token) ==
            tap.rawPacket = line \o <<"\n">> =>
                /\ Read(Record(line), "sourceIP") = A
                /\ Read(Record(line), "destIP") = B
                /\ Read(Record(line), "protocol") = token
    IN  /\ Is(LinePlain, <<"1", "0", ".", "0", ".", "0", ".", "5">>,
              <<"1", "0", ".", "0", ".", "0", ".", "9">>, <<"I", "C", "M", "P">>)
        /\ Is(LineProto, <<"1", "0", ".", "0", ".", "0", ".", "7">>,
              <<"1", "0", ".", "0", ".", "0", ".", "9">>, <<"U", "D", "P">>)
        /\ Is(LinePortsProto, <<"1", "0", ".", "0", ".", "0", ".", "5">>,
              <<"1", "0", ".", "0", ".", "0", ".", "9">>, <<"U", "D", "P">>)

\* C22: every vector the extractor returns has 10 elements, which is the
\* number of protocols plus 4 and the value of getFeatureCount().
C22_FixedLength ==
    \A i \in 1..Len(orch.handled) :
        orch.handled[i].extracted =>
            /\ Len(orch.handled[i].features) = 10
            /\ Len(orch.handled[i].features) = Len(protocols) + 4
            /\ Len(orch.handled[i].features) = getFeatureCount

\* C23: for every PacketRecord the tap emits, with or without addresses, the
\* extractor returns a vector without raising, and the scoring request of the
\* packet carries that vector.
C23_ExtractorTotal ==
    \A i \in 1..Len(orch.handled) :
        LET h == orch.handled[i]
        IN  /\ h.extracted
            /\ h.requested
            /\ h.body = h.features

\* C24: a qualifying packet results in exactly one 'anomaly' event, whether or
\* not the device stats were obtained; any other packet results in none.
C24_AnomalyEvent ==
    \A i \in 1..Len(orch.handled) :
        orch.handled[i].event <=> Qualifies(orch.handled[i])

\* C25: a getStats() whose read fails while the session is connected fails to
\* its caller, marks the session disconnected, adds one to the failure counter
\* and schedules a retry, or emits 'error' when the retries are used up.
C25_ReadFailure ==
    [][/\ call'.op = "getStats"
       /\ hist'.calls = hist.calls + 1
       /\ hist.expected
       /\ call'.failAt = 1
       => /\ call'.result = "raised"
          /\ ~rm'.isConnected
          /\ rm'.reconnectAttempts = rm.reconnectAttempts + 1
          /\ IF RetryAllowed(rm'.reconnectAttempts)
             THEN rm'.timers = rm.timers + 1 /\ rm'.emitted = rm.emitted
             ELSE rm'.timers = rm.timers
                  /\ rm'.emitted.error = rm.emitted.error + 1]_vars

\* C27: a periodic train() that fails, at once with TrainingInProgress or when
\* its request settles, leaves the interval registered and is reported by one
\* 'error' event.
C27_PeriodicTrainingErrors ==
    [][/\ detCall'.result \in {"TrainingInProgress", "ServiceCallError"}
       /\ detCall' # detCall \/ det' # det
       => /\ orch'.intervals = orch.intervals
          /\ orch'.errors = orch.errors + 1]_vars

\* C28 as stated: every packet with length > 1500 or destination port 22 or
\* 3389 is recorded as an anomaly of confidence 0.9 and type
\* suspicious_traffic.
C28_HeuristicAnyProtocol ==
    [][Len(provider'.packets) > Len(provider.packets) =>
          LET packet == provider'.packets[1]
          IN  packet.length > 1500 \/ packet.details.destination_port \in {22, 3389} =>
                  /\ Len(provider'.anomalies) = Len(provider.anomalies) + 1
                  /\ provider'.anomalies[Len(provider'.anomalies)].confidence = 90
                  /\ provider'.anomalies[Len(provider'.anomalies)].type =
                         "suspicious_traffic"]_vars

\* C28: a packet is recorded as an anomaly of confidence 0.9 and type
\* suspicious_traffic exactly when its length > 1500 or it is a TCP packet
\* with destination port 22 or 3389; a TCP packet of length 1500 to port 22
\* is.
C28_HeuristicRule ==
    [][Len(provider'.packets) > Len(provider.packets) =>
          LET packet == provider'.packets[1]
              flagged == \/ packet.length > 1500
                         \/ /\ packet.details.protocol = "TCP"
                            /\ packet.details.destination_port \in {22, 3389}
          IN  IF flagged
              THEN /\ provider'.anomalies =
                          Append(provider.anomalies,
                                 [protocol |-> packet.details.protocol,
                                  length |-> packet.length, confidence |-> 90,
                                  type |-> "suspicious_traffic", resolved |-> FALSE])
                   /\ provider'.detectionCount = provider.detectionCount + 1
                   /\ provider'.threatLevel = "high"
              ELSE /\ provider'.anomalies = provider.anomalies
                   /\ provider'.detectionCount = provider.detectionCount
                   /\ provider'.threatLevel = provider.threatLevel]_vars

C28_Witness ==
    /\ Len(provider.packets) = 1
    /\ provider.packets[1] =
           [length |-> 1500, details |-> [protocol |-> "TCP", destination_port |-> 22]]
    /\ Len(provider.anomalies) = 1
    /\ provider.anomalies[1].confidence = 90
    /\ provider.anomalies[1].type = "suspicious_traffic"

\* C29: the PacketRecords of a chunk are emitted in the order of its lines,
\* and their scoring requests are issued in that order: the i-th request
\* issued is that of the i-th record.
C29_ArrivalOrder ==
    /\ tap.rawPacket = LinePorts \o <<"\n">> \o LinePlain \o <<"\n">> =>
           /\ Len(tap.packets) = 2
           /\ Read(tap.packets[1], "flags") = <<"S">>
           /\ Read(tap.packets[2], "protocol") = <<"I", "C", "M", "P">>
    /\ Len(orch.handled) = Len(tap.packets)
    /\ \A i \in 1..Len(orch.handled) :
           /\ orch.handled[i].requested
           /\ orch.handled[i].body = extract(tap.packets[i]).features

\* C30: a line delivered across two chunks yields the records the same line
\* yields when delivered in one chunk.
C30_LineBuffering ==
    [][tap.rawPacket = PlainHalves[1] /\ tap'.rawPacket = PlainHalves[2] =>
          tap.packets \o tap'.packets = processPacket(LinePlain \o <<"\n">>, now)]_vars

\* C31: the runs of handlePacket in flight at one time are bounded by a
\* constant that does not grow with the packets arriving together: of the
\* records of a chunk of two or more, fewer are in flight than arrived.
C31_BoundedInFlight ==
    Len(tap.packets) > 1 => orch.suspended < Len(tap.packets)

\* C32: a PacketRecord that carries a sourcePort or a destPort carries a
\* sourceIP and a destIP too, and the record of a line with plain addresses
\* and no port suffix ("IP 10.0.0.5 > 10.0.0.9: ICMP ...") carries no port.
C32_PortsOnlyWithPair ==
    \A i \in 1..Len(tap.packets) :
        LET packet == tap.packets[i]
        IN  /\ Has(packet, "sourcePort") \/ Has(packet, "destPort") =>
                  Has(packet, "sourceIP") /\ Has(packet, "destIP")
            /\ tap.rawPacket \in {LinePlain \o <<"\n">>, LineProto \o <<"\n">>} =>
                  ~Has(packet, "sourcePort") /\ ~Has(packet, "destPort")

\* C33: a rule is translated into one write request whose operations are, in
\* this order, source address, destination address, protocol, port, each
\* present only when the rule has the field, and one action operation last;
\* TCP is 6, UDP 17, ICMP 1, allow 1, deny 2, limit 3, any other name 0.
C33_RuleTranslation ==
    call.op = "generatePolicyOids" =>
        LET rule == call.policy.rules[1]
            protocol == CASE rule.protocol \in {"tcp", "TCP"} -> 6
                          [] rule.protocol \in {"udp", "UDP"} -> 17
                          [] rule.protocol \in {"icmp", "ICMP"} -> 1
                          [] OTHER -> 0
            action == CASE rule.action \in {"allow", "ALLOW"} -> 1
                        [] rule.action \in {"deny", "DENY"} -> 2
                        [] rule.action \in {"limit", "LIMIT"} -> 3
                        [] OTHER -> 0
        IN  /\ Len(rm.writes) = 1
            /\ rm.writes[1] =
                  (IF rule.sourceIP # ""
                   THEN <<Oid("1.3.6.1.2.1.4.20.1.1", "OctetString", rule.sourceIP)>>
                   ELSE <<>>)
                  \o (IF rule.destIP # ""
                      THEN <<Oid("1.3.6.1.2.1.4.20.1.2", "OctetString", rule.destIP)>>
                      ELSE <<>>)
                  \o (IF rule.protocol # ""
                      THEN <<Oid("1.3.6.1.2.1.4.21.1.9", "Integer", protocol)>>
                      ELSE <<>>)
                  \o (IF rule.port # 0
                      THEN <<Oid("1.3.6.1.2.1.6.13.1.3", "Integer", rule.port)>>
                      ELSE <<>>)
                  \o <<Oid("1.3.6.1.2.1.4.21.1.13", "Integer", action)>>

\* C34: isActive() is true exactly when the adapter holds a capture process
\* that is alive, and at most one capture process is alive, whatever the
\* order of startCapture, stopCapture and the exits of the processes.
C34_CaptureOwnership ==
    /\ tap.isCapturing <=>
           /\ tap.tcpdumpProcess # 0
           /\ tap.procs[tap.tcpdumpProcess] = "alive"
    /\ Cardinality({p \in 1..Len(tap.procs) : tap.procs[p] = "alive"}) <= 1

\* C35: at most one connect attempt of the RouterManager is scheduled and at
\* most one session is open and not closed, also when connect() is called
\* while a retry is pending.
C35_OneReconnectChain ==
    /\ rm.timers <= 1
    /\ rm.orphans + (IF rm.session = "open" THEN 1 ELSE 0) <= 1

\* C37: at most one periodic-retraining timer is registered at any time, and
\* once stop() has returned no periodic train() request is sent, across any
\* sequence of start() and stop() calls.
C37_TimerLifecycle ==
    [][/\ orch'.intervals <= 1
       /\ orchCall.op = "stop" /\ ~orch.isRunning => det'.sent = det.sent]_vars

\* C38: the in-progress flag is true exactly while an accepted train() request
\* is unresolved: the settling of the request, with or without an error,
\* clears it, and a train() called after that is accepted.
C38_NeverLocked ==
    /\ [](det.isTraining <=> det.inflight > 0)
    /\ [][/\ TrainRequestSettles => ~det'.isTraining
          /\ CallTrain /\ detCall.op = "trainSettled" /\ det.inflight = 0 =>
                /\ det'.sent = det.sent + 1
                /\ det'.isTraining
                /\ detCall' = detCall]_vars

C38_Witness ==
    /\ detCall.op = "trainSettled"
    /\ ~detCall.served
    /\ det.isTraining
    /\ det.inflight = 1
    /\ det.sent = 2
    /\ det.trainingComplete = 0

\* C40: a start() called while an earlier start() has not finished does not
\* fail with AlreadyCapturing, and once the orchestrator is running no start(),
\* called then or still in progress, registers a timer, spawns a capture
\* process or touches the session.
C40_ConcurrentStart ==
    [][orch'.starts > orch.starts \/ orch'.intervals > orch.intervals =>
          /\ orch.starting > 0 /\ orch'.starts > orch.starts
                 /\ orch'.starting = orch.starting =>
                 orchCall'.result # "AlreadyCapturing"
          /\ orch.isRunning =>
                 /\ orch'.isRunning
                 /\ orch'.intervals = orch.intervals
                 /\ tap' = tap
                 /\ rm' = rm]_vars

====
